---- MODULE Spec2Model ----
(***************************************************************************)
(* Lesson-progression bot of src/bot.py: the users sheet (Progress Store), *)
(* the responses sheet (Response Log), the job queue (Scheduler) and the   *)
(* handlers of the Application.                                            *)
(*                                                                         *)
(* Scheduling.  The Application is built with its defaults (bot.py:534),   *)
(* so updates are handled one after another; jobs of the job queue run as  *)
(* tasks of their own on the same event loop.  The gspread calls are       *)
(* blocking, so a task gives up control only at an await of the transport  *)
(* (reply_text, send_message).  Every action below is the code between two *)
(* such awaits.                                                            *)
(*                                                                         *)
(* Faults.  A sheet call may raise (or the sheet handle may be None): a    *)
(* failed lookup returns None, a failed save or append changes nothing     *)
(* (bot.py:122-123,142-144,149-150,197-198,210-211,229-230).  A transport  *)
(* call may raise.  The flags g (get), p (put), l (log append) and ok     *)
(* (transport) of the actions choose the outcome of each call.            *)
(***************************************************************************)
EXTENDS Integers, Sequences, FiniteSets, Bags, TLC

\* ---- bounds of the model ------------------------------------------------
MaxLessons == 2
MaxJobs == 2
MaxLog == 2

\* Telegram user ids, as the strings str(update.effective_user.id): the users
\* who write to the bot, and one who started the course before and is silent.
Users == {"u1"}
OtherUser == "u0"
OtherRow == [user_id |-> OtherUser, current_lesson |-> 0,
             paused |-> "False", completed |-> "False"]

\* The catalogs the run may be started with: LESSONS as the sequence of its
\* lessons' is_final flags (any placement of the flag, the empty catalog too).
Catalogs == UNION {[1..n -> BOOLEAN] : n \in 0..MaxLessons}

VARIABLES
    LESSONS,          \* the catalog: LESSONS[i+1] is lesson i's is_final
    users_sheet,      \* rows of the users sheet below its header
    responses_sheet,  \* rows of the responses sheet below its header
    job_queue,        \* run_once jobs not yet fired, in firing order
    sending,          \* job tasks suspended in send_message (a bag)
    handler,          \* the update handler in progress, if one is suspended
    delivered,        \* per user, the lessons that reached them since their last /start
    last              \* the step just taken (observation only)

vars == <<LESSONS, users_sheet, responses_sheet, job_queue, sending, handler,
          delivered, last>>

\* ---- conversions of the sheet --------------------------------------------
\* str(bool) as save_user_to_sheet writes it.
PyStr(b) == IF b THEN "True" ELSE "False"

\* cell.lower() == "true" as get_user_from_sheet reads it.
ParseBool(s) == s \in {"True", "true", "TRUE"}

NoData == [user_id |-> "", current_lesson |-> 0, paused |-> FALSE, completed |-> FALSE]

\* Index of the first row of user_id, 0 when there is none.
FindRow(sheet, user_id) ==
    IF \E i \in 1..Len(sheet) : sheet[i].user_id = user_id
    THEN CHOOSE i \in 1..Len(sheet) :
            /\ sheet[i].user_id = user_id
            /\ \A j \in 1..(i - 1) : sheet[j].user_id # user_id
    ELSE 0

HasUser(sheet, user_id) == FindRow(sheet, user_id) # 0

\* The dict get_user_from_sheet returns when it finds the user.
get_user_from_sheet(sheet, user_id) ==
    LET row == sheet[FindRow(sheet, user_id)]
    IN  [user_id |-> row.user_id,
         current_lesson |-> row.current_lesson,
         paused |-> ParseBool(row.paused),
         completed |-> ParseBool(row.completed)]

RowData(user_data) ==
    [user_id |-> user_data.user_id,
     current_lesson |-> user_data.current_lesson,
     paused |-> PyStr(user_data.paused),
     completed |-> PyStr(user_data.completed)]

\* A faulty variant: save_user_to_sheet without the search for the user's row.
save_user_to_sheet_appends(sheet, user_data, p) ==
    IF p THEN Append(sheet, RowData(user_data)) ELSE sheet

\* The sheet after save_user_to_sheet(user_data); p: the sheet calls succeed.
save_user_to_sheet(sheet, user_data, p) ==
    LET i == FindRow(sheet, user_data.user_id)
    IN  IF ~p THEN sheet
        ELSE IF i # 0 THEN [sheet EXCEPT ![i] = RowData(user_data)]
        ELSE Append(sheet, RowData(user_data))

\* A faulty variant: the reply logged under the lesson the user moves on to.
save_response_to_sheet_next(sheet, user_id, lesson_index, l) ==
    IF l
    THEN Append(sheet, [user_id |-> user_id, lesson_index |-> lesson_index + 1])
    ELSE sheet

\* The sheet after save_response_to_sheet; l: the append succeeds.  Of a row's
\* columns the model keeps user_id and lesson_index (the others are never read
\* back and no handler branches on them).
save_response_to_sheet(sheet, user_id, lesson_index, l) ==
    IF l
    THEN Append(sheet, [user_id |-> user_id, lesson_index |-> lesson_index])
    ELSE sheet

is_final(lesson_index) == LESSONS[lesson_index + 1]

\* ---- send_lesson ---------------------------------------------------------
\* A faulty variant: send_lesson without the check of the pause.
send_lesson_runs_ignores_pause(sheet, user_id, lesson_index, g) ==
    /\ Len(LESSONS) # 0
    /\ lesson_index < Len(LESSONS)
    /\ g
    /\ HasUser(sheet, user_id)

\* send_lesson gets past its guards: the catalog has the lesson, the user's
\* row is found (g: the lookup succeeds) and it is not paused.
send_lesson_runs(sheet, user_id, lesson_index, g) ==
    /\ Len(LESSONS) # 0
    /\ lesson_index < Len(LESSONS)
    /\ g
    /\ HasUser(sheet, user_id)
    /\ ~get_user_from_sheet(sheet, user_id).paused

\* The user_data send_lesson holds while it sends.
send_lesson_data(sheet, user_id, lesson_index) ==
    [get_user_from_sheet(sheet, user_id) EXCEPT !.current_lesson = lesson_index]

\* send_lesson overwrites a stored current_lesson other than lesson_index.
send_lesson_moves(sheet, user_id, lesson_index) ==
    get_user_from_sheet(sheet, user_id).current_lesson # lesson_index

\* The users sheet when send_lesson reaches the send (or has returned early).
send_lesson_saved(sheet, user_id, lesson_index, g, p) ==
    IF send_lesson_runs(sheet, user_id, lesson_index, g)
    THEN save_user_to_sheet(sheet, send_lesson_data(sheet, user_id, lesson_index), p)
    ELSE sheet

\* A faulty variant: completion marked after the send of any lesson.
send_lesson_done_any_lesson(sheet, user_data, lesson_index, ok, p) ==
    IF ok
    THEN save_user_to_sheet(sheet, [user_data EXCEPT !.completed = TRUE], p)
    ELSE sheet

\* A faulty variant: completion marked whether or not the send raised.
send_lesson_done_ignores_failure(sheet, user_data, lesson_index, ok, p) ==
    IF is_final(lesson_index)
    THEN save_user_to_sheet(sheet, [user_data EXCEPT !.completed = TRUE], p)
    ELSE sheet

\* The users sheet when send_lesson returns from the send; ok: the send succeeded.
send_lesson_done(sheet, user_data, lesson_index, ok, p) ==
    IF ok /\ is_final(lesson_index)
    THEN save_user_to_sheet(sheet, [user_data EXCEPT !.completed = TRUE], p)
    ELSE sheet

\* ---- observation ---------------------------------------------------------
\* op: the step; kind: the reply's type; lesson_index: the lesson send_lesson
\* was called with, or the lesson a reply was logged for (-1: none); sent: a
\* lesson reached the user in this step; get_ok/put_ok/log_ok/send_ok: no call
\* of that kind failed in this step.
Event(op, kind, user_id, lesson_index, sent, g, p, l, ok) ==
    [op |-> op, kind |-> kind, user_id |-> user_id, lesson_index |-> lesson_index,
     sent |-> sent, get_ok |-> g, put_ok |-> p, log_ok |-> l, send_ok |-> ok]

\* handler.origin: the handler that called send_lesson; moved: send_lesson
\* found another current_lesson stored than the one it saved (observation only).
Idle == [pc |-> "idle", origin |-> "", user_data |-> NoData, lesson_index |-> 0,
         moved |-> FALSE]

Sending(origin, user_data, lesson_index, moved) ==
    [pc |-> "send", origin |-> origin, user_data |-> user_data,
     lesson_index |-> lesson_index, moved |-> moved]

\* delivered after a send to user_id returned; ok: the lesson reached the user.
Delivered(user_id, lesson_index, ok) ==
    IF ok /\ user_id \in Users
    THEN [delivered EXCEPT ![user_id] = @ \cup {lesson_index}]
    ELSE delivered

Init ==
    /\ LESSONS \in Catalogs
    /\ users_sheet \in {<<>>, <<OtherRow>>}
    /\ responses_sheet = <<>>
    /\ job_queue = <<>>
    /\ sending = EmptyBag
    /\ handler = Idle
    /\ delivered = [u \in Users |-> {}]
    /\ last = Event("init", "", "", -1, FALSE, TRUE, TRUE, TRUE, TRUE)

\* ---- /start --------------------------------------------------------------
start(user_id, p) ==
    /\ handler.pc = "idle"
    /\ users_sheet' = save_user_to_sheet(users_sheet,
            [user_id |-> user_id, current_lesson |-> 0,
             paused |-> FALSE, completed |-> FALSE], p)
    /\ delivered' = [delivered EXCEPT ![user_id] = {}]
    /\ last' = Event("start", "", user_id, -1, FALSE, TRUE, p, TRUE, TRUE)
    /\ UNCHANGED <<LESSONS, responses_sheet, job_queue, sending, handler>>

\* ---- "Начать курс" -------------------------------------------------------
\* Up to the await of the lesson's send inside send_lesson(.., 0).
handle_start_course(user_id, g1, p1, g2, p2) ==
    /\ handler.pc = "idle"
    /\ IF g1 /\ HasUser(users_sheet, user_id)
          /\ ~get_user_from_sheet(users_sheet, user_id).paused
       THEN LET user_data == get_user_from_sheet(users_sheet, user_id)
                sheet1 == save_user_to_sheet(users_sheet,
                              [user_data EXCEPT !.paused = FALSE], p1)
                runs == send_lesson_runs(sheet1, user_id, 0, g2)
            IN  /\ users_sheet' = send_lesson_saved(sheet1, user_id, 0, g2, p2)
                /\ handler' = IF runs
                              THEN Sending("begin", send_lesson_data(sheet1, user_id, 0), 0,
                                           send_lesson_moves(sheet1, user_id, 0))
                              ELSE Idle
                /\ last' = Event("begin", "", user_id, 0, FALSE,
                                 Len(LESSONS) = 0 \/ g2, p1 /\ (runs => p2), TRUE, TRUE)
       ELSE /\ last' = Event("begin", "", user_id, -1, FALSE, g1, TRUE, TRUE, TRUE)
            /\ UNCHANGED <<users_sheet, handler>>
    /\ UNCHANGED <<LESSONS, responses_sheet, job_queue, sending, delivered>>

\* ---- /pause --------------------------------------------------------------
pause(user_id, g, p) ==
    /\ handler.pc = "idle"
    /\ IF g /\ HasUser(users_sheet, user_id)
       THEN LET user_data == get_user_from_sheet(users_sheet, user_id)
            IN  /\ users_sheet' = save_user_to_sheet(users_sheet,
                                      [user_data EXCEPT !.paused = TRUE], p)
                /\ last' = Event("pause", "", user_id, -1, FALSE, TRUE, p, TRUE, TRUE)
       ELSE /\ last' = Event("pause", "", user_id, -1, FALSE, g, TRUE, TRUE, TRUE)
            /\ UNCHANGED users_sheet
    /\ UNCHANGED <<LESSONS, responses_sheet, job_queue, sending, handler, delivered>>

\* ---- /resume -------------------------------------------------------------
\* A faulty variant: resume moving on to the next lesson.
resume_lesson_advances(user_data) == user_data.current_lesson + 1

\* The lesson resume sends again.
resume_lesson(user_data) == user_data.current_lesson

\* Up to the await of reply_text("Курс возобновлён!").
resume(user_id, g, p) ==
    /\ handler.pc = "idle"
    /\ IF g /\ HasUser(users_sheet, user_id)
       THEN LET user_data == [get_user_from_sheet(users_sheet, user_id)
                                 EXCEPT !.paused = FALSE]
            IN  /\ users_sheet' = save_user_to_sheet(users_sheet, user_data, p)
                /\ handler' = [pc |-> "resume_reply", origin |-> "resume",
                               user_data |-> user_data,
                               lesson_index |-> resume_lesson(user_data),
                               moved |-> FALSE]
                /\ last' = Event("resume", "", user_id, -1, FALSE, TRUE, p, TRUE, TRUE)
       ELSE /\ last' = Event("resume", "", user_id, -1, FALSE, g, TRUE, TRUE, TRUE)
            /\ UNCHANGED <<users_sheet, handler>>
    /\ UNCHANGED <<LESSONS, responses_sheet, job_queue, sending, delivered>>

\* From that await to the await of the lesson's send (or to the return);
\* ok: reply_text returned.
resume_replied(ok, g, p) ==
    /\ handler.pc = "resume_reply"
    /\ LET user_id == handler.user_data.user_id
           current_lesson == handler.lesson_index
           runs == send_lesson_runs(users_sheet, user_id, current_lesson, g)
       IN  IF ok /\ ~handler.user_data.completed
           THEN /\ users_sheet' = send_lesson_saved(users_sheet, user_id, current_lesson, g, p)
                /\ handler' = IF runs
                              THEN Sending("resume", send_lesson_data(users_sheet,
                                               user_id, current_lesson), current_lesson,
                                           send_lesson_moves(users_sheet, user_id,
                                                             current_lesson))
                              ELSE Idle
                /\ last' = Event("resume_deliver", "", user_id, current_lesson, FALSE,
                                 current_lesson >= Len(LESSONS) \/ g, runs => p, TRUE, TRUE)
           ELSE /\ handler' = Idle
                /\ last' = Event("resume_end", "", user_id, -1, FALSE, TRUE, TRUE, TRUE, ok)
                /\ UNCHANGED users_sheet
    /\ UNCHANGED <<LESSONS, responses_sheet, job_queue, sending, delivered>>

\* ---- the send of a lesson returns ------------------------------------------
\* In a handler (reply_text of the update).
update_sent(ok, p) ==
    /\ handler.pc = "send"
    /\ users_sheet' = send_lesson_done(users_sheet, handler.user_data,
                                       handler.lesson_index, ok, p)
    /\ handler' = Idle
    /\ delivered' = Delivered(handler.user_data.user_id, handler.lesson_index, ok)
    /\ last' = Event("update_sent", handler.origin, handler.user_data.user_id,
                     handler.lesson_index, ok, TRUE,
                     (ok /\ is_final(handler.lesson_index)) => p, TRUE, ok)
    /\ UNCHANGED <<LESSONS, responses_sheet, job_queue, sending>>

\* In a job (bot.send_message).
job_sent(task, ok, p) ==
    /\ BagIn(task, sending)
    /\ users_sheet' = send_lesson_done(users_sheet, task.user_data,
                                       task.lesson_index, ok, p)
    /\ sending' = sending (-) SetToBag({task})
    /\ delivered' = Delivered(task.user_data.user_id, task.lesson_index, ok)
    /\ last' = Event("job_sent", "job", task.user_data.user_id, task.lesson_index,
                     ok, TRUE, (ok /\ is_final(task.lesson_index)) => p, TRUE, ok)
    /\ UNCHANGED <<LESSONS, responses_sheet, job_queue, handler>>

\* ---- send_lesson_job -----------------------------------------------------
\* The oldest job fires: send_lesson up to the await of the send.
send_lesson_job(g, p) ==
    /\ job_queue # <<>>
    /\ LET user_id == Head(job_queue).user_id
           lesson_index == Head(job_queue).lesson_index
           runs == send_lesson_runs(users_sheet, user_id, lesson_index, g)
       IN  /\ users_sheet' = send_lesson_saved(users_sheet, user_id, lesson_index, g, p)
           /\ sending' = IF runs
                         THEN sending (+) SetToBag({[user_data |->
                                  send_lesson_data(users_sheet, user_id, lesson_index),
                                  lesson_index |-> lesson_index,
                                  moved |-> send_lesson_moves(users_sheet, user_id,
                                                              lesson_index)]})
                         ELSE sending
           /\ last' = Event("job", "", user_id, lesson_index, FALSE,
                            lesson_index >= Len(LESSONS) \/ g, runs => p, TRUE, TRUE)
    /\ job_queue' = Tail(job_queue)
    /\ UNCHANGED <<LESSONS, responses_sheet, handler, delivered>>

\* ---- replies -------------------------------------------------------------
\* The lookup and the two checks every reply handler starts with.
reply_accepted(sheet, user_id, g) ==
    /\ g
    /\ HasUser(sheet, user_id)
    /\ get_user_from_sheet(sheet, user_id).current_lesson # -1
    /\ get_user_from_sheet(sheet, user_id).current_lesson < Len(LESSONS)

\* A faulty variant: moving on after a reply to the final lesson too.
response_advances_always(lesson_index) == lesson_index >= 0

\* handle_response moves on to the next lesson after logging the reply.
response_advances(lesson_index) == ~is_final(lesson_index)

\* A faulty variant: an index moved by two.
next_lesson_skips(current_lesson_index) == current_lesson_index + 2

next_lesson(current_lesson_index) == current_lesson_index + 1

\* Text (commands and the course button apart) and photos: handle_response.
handle_response(user_id, response_type, g, l, p) ==
    /\ handler.pc = "idle"
    /\ response_type \in {"text", "photo"}
    /\ IF reply_accepted(users_sheet, user_id, g)
       THEN LET user_data == get_user_from_sheet(users_sheet, user_id)
                current_lesson_index == user_data.current_lesson
                next_lesson_index == next_lesson(current_lesson_index)
            IN  /\ Len(responses_sheet) < MaxLog
                /\ responses_sheet' = save_response_to_sheet(responses_sheet, user_id,
                                          current_lesson_index, l)
                /\ IF response_advances(current_lesson_index)
                   THEN /\ Len(job_queue) + BagCardinality(sending) < MaxJobs
                        /\ users_sheet' = save_user_to_sheet(users_sheet,
                               [user_data EXCEPT !.current_lesson = next_lesson_index], p)
                        /\ job_queue' = Append(job_queue,
                               [user_id |-> user_id, lesson_index |-> next_lesson_index])
                        /\ last' = Event("reply", response_type, user_id,
                                         current_lesson_index, FALSE, TRUE, p, l, TRUE)
                   ELSE /\ last' = Event("reply", response_type, user_id,
                                         current_lesson_index, FALSE, TRUE, TRUE, l, TRUE)
                        /\ UNCHANGED <<users_sheet, job_queue>>
       ELSE /\ last' = Event("reply", response_type, user_id, -1, FALSE, g, TRUE, TRUE, TRUE)
            /\ UNCHANGED <<users_sheet, responses_sheet, job_queue>>
    /\ UNCHANGED <<LESSONS, sending, handler, delivered>>

\* What handle_voice and handle_document do alike: log the reply, nothing else.
handle_media(user_id, response_type, g, l) ==
    /\ handler.pc = "idle"
    /\ IF reply_accepted(users_sheet, user_id, g)
       THEN LET current_lesson_index ==
                    get_user_from_sheet(users_sheet, user_id).current_lesson
            IN  /\ Len(responses_sheet) < MaxLog
                /\ responses_sheet' = save_response_to_sheet(responses_sheet, user_id,
                                          current_lesson_index, l)
                /\ last' = Event("reply", response_type, user_id,
                                 current_lesson_index, FALSE, TRUE, TRUE, l, TRUE)
       ELSE /\ last' = Event("reply", response_type, user_id, -1, FALSE, g, TRUE, TRUE, TRUE)
            /\ UNCHANGED responses_sheet
    /\ UNCHANGED <<LESSONS, users_sheet, job_queue, sending, handler, delivered>>

handle_voice(user_id, g, l) == handle_media(user_id, "voice", g, l)

handle_document(user_id, g, l) == handle_media(user_id, "document", g, l)

\* One step of the program.  F: the outcomes a sheet call of a command, of the
\* course button or of a job may have (TRUE: it succeeds); R: those of a sheet
\* call of a reply handler; T: those of a transport call (TRUE: it returns).
Steps(F, R, T) ==
    \/ \E u \in Users, p \in F : start(u, p)
    \/ \E u \in Users, g1, p1, g2, p2 \in F : handle_start_course(u, g1, p1, g2, p2)
    \/ \E u \in Users, g, p \in F : pause(u, g, p)
    \/ \E u \in Users, g, p \in F : resume(u, g, p)
    \/ \E ok \in T, g, p \in F : resume_replied(ok, g, p)
    \/ \E ok \in T, p \in F : update_sent(ok, p)
    \/ \E task \in BagToSet(sending), ok \in T, p \in F : job_sent(task, ok, p)
    \/ \E g, p \in F : send_lesson_job(g, p)
    \/ \E u \in Users, t \in {"text", "photo"}, g, l, p \in R :
            handle_response(u, t, g, l, p)
    \/ \E u \in Users, g, l \in R : handle_voice(u, g, l)
    \/ \E u \in Users, g, l \in R : handle_document(u, g, l)

\* A transport call may fail whatever the sheets do.
Step(F) == Steps(F, F, BOOLEAN)

\* The sheets answer every call.
Next == Step({TRUE})

Spec == Init /\ [][Next]_vars

\* The sheets may fail any call.
NextF == Step(BOOLEAN)

SpecF == Init /\ [][NextF]_vars

\* The sheets may fail any call of a reply handler.
NextR == Steps({TRUE}, BOOLEAN, BOOLEAN)

SpecR == Init /\ [][NextR]_vars

\* No sheet call and no transport call fails; a job that is due fires, and a
\* send that is pending returns.
NextL == Steps({TRUE}, {TRUE}, {TRUE})

JobFires == send_lesson_job(TRUE, TRUE)

JobSendReturns == \E task \in BagToSet(sending) : job_sent(task, TRUE, TRUE)

UpdateSendReturns == update_sent(TRUE, TRUE) \/ resume_replied(TRUE, TRUE, TRUE)

Fairness ==
    /\ WF_vars(JobFires)
    /\ WF_vars(JobSendReturns)
    /\ WF_vars(UpdateSendReturns)

SpecL == Init /\ [][NextL]_vars /\ Fairness

\* ==== properties ===========================================================
Stored(user_id) == get_user_from_sheet(users_sheet, user_id)

StoredNext(user_id) == get_user_from_sheet(users_sheet', user_id)

RowsOf(sheet, user_id) == {i \in 1..Len(sheet) : sheet[i].user_id = user_id}

\* The step is a call of send_lesson(user_id, last'.lesson_index).
CallsSendLesson(user_id) ==
    /\ last'.op \in {"begin", "resume_deliver", "job"}
    /\ last'.user_id = user_id
    /\ last'.lesson_index >= 0

\* The step is the return of a send of lesson last'.lesson_index to user_id.
SendReturns(user_id) ==
    /\ last'.op \in {"update_sent", "job_sent"}
    /\ last'.user_id = user_id

\* C1: while a user's stored record is paused, no inbound event of that user
\* other than /resume and no job that fires changes the stored current_lesson or
\* starts or completes a delivery.  (/start is left out here: it resets the
\* record by design, see C5.)
C1_PausedSuppressesAll ==
    [][\A u \in Users :
        (/\ HasUser(users_sheet, u)
         /\ Stored(u).paused
         /\ last'.user_id = u
         /\ last'.op \in {"begin", "pause", "reply", "job"})
        => /\ StoredNext(u).current_lesson = Stored(u).current_lesson
           /\ delivered' = delivered
           /\ sending' = sending
           /\ handler' = handler]_vars

\* C2: /resume for a user with a record clears paused and keeps the stored
\* current_lesson; the lesson it then sends, and the index it stores with it,
\* is the current_lesson that was stored when /resume read the record.
C2_ResumeRedelivers ==
    [][\A u \in Users :
        /\ (last'.op = "resume" /\ last'.user_id = u /\ HasUser(users_sheet, u))
           => /\ StoredNext(u) = [Stored(u) EXCEPT !.paused = FALSE]
              /\ handler'.pc = "resume_reply"
              /\ handler'.lesson_index = Stored(u).current_lesson
        /\ (last'.op = "resume_deliver" /\ last'.user_id = u /\ handler'.pc = "send")
           => /\ handler'.lesson_index = handler.lesson_index
              /\ StoredNext(u).current_lesson = handler.lesson_index
              /\ ~StoredNext(u).paused
        /\ (last'.op = "update_sent" /\ last'.kind = "resume" /\ last'.user_id = u
            /\ last'.sent)
           => /\ delivered'[u] = delivered[u] \cup {handler.lesson_index}
              /\ \/ users_sheet' = users_sheet
                 \/ StoredNext(u).current_lesson = handler.lesson_index]_vars

C2_Witness ==
    /\ last.op = "update_sent" /\ last.kind = "resume" /\ last.sent
    /\ last.lesson_index = 1
    /\ HasUser(users_sheet, last.user_id)
    /\ Stored(last.user_id).current_lesson = 1
    /\ ~Stored(last.user_id).paused
    /\ ~Stored(last.user_id).completed

\* C3: a reply of any type from a user whose record exists with a current_lesson
\* inside the catalog appends exactly one row to the responses sheet, with the
\* lesson index stored before the reply; any other reply leaves the sheet as is.
C3_ReplyLoggedOnce ==
    [][\A u \in Users :
        (last'.op = "reply" /\ last'.user_id = u)
        => IF /\ HasUser(users_sheet, u)
              /\ Stored(u).current_lesson >= 0
              /\ Stored(u).current_lesson < Len(LESSONS)
           THEN responses_sheet' = Append(responses_sheet,
                    [user_id |-> u, lesson_index |-> Stored(u).current_lesson])
           ELSE responses_sheet' = responses_sheet]_vars

C3_Witness ==
    /\ last.op = "reply" /\ last.kind = "document"
    /\ last.lesson_index = 1
    /\ is_final(1)
    /\ Len(responses_sheet) = 2
    /\ responses_sheet[1].lesson_index = 0
    /\ responses_sheet[2] = [user_id |-> last.user_id, lesson_index |-> 1]

\* C4 as stated: after a send of lesson i returned without error, the stored
\* current_lesson is i and the stored completed flag is true exactly when
\* lesson i is final.
C4_AsStated ==
    \A u \in Users :
        (last.op \in {"update_sent", "job_sent"} /\ last.user_id = u /\ last.sent)
        => /\ HasUser(users_sheet, u)
           /\ Stored(u).current_lesson = last.lesson_index
           /\ Stored(u).completed <=> is_final(last.lesson_index)

\* C4 as amended: send_lesson(user, i), for a lesson i of the catalog and a
\* stored unpaused record, stores current_lesson = i before it sends and leaves
\* paused and completed as stored; when the send of a final lesson returns
\* without error it stores current_lesson = i with completed = true; when the
\* send of a lesson that is not final returns, the users sheet is not written.
C4_DeliverSetsIndex ==
    [][\A u \in Users :
        /\ (/\ CallsSendLesson(u)
            /\ last'.lesson_index < Len(LESSONS)
            /\ HasUser(users_sheet, u)
            /\ ~Stored(u).paused)
           => StoredNext(u) = [Stored(u) EXCEPT !.current_lesson = last'.lesson_index]
        /\ (SendReturns(u) /\ last'.sent /\ is_final(last'.lesson_index))
           => /\ HasUser(users_sheet', u)
              /\ StoredNext(u).current_lesson = last'.lesson_index
              /\ StoredNext(u).completed
        /\ (SendReturns(u) /\ ~is_final(last'.lesson_index))
           => users_sheet' = users_sheet]_vars

C4_Witness ==
    /\ last.op = "job_sent" /\ last.sent
    /\ last.lesson_index = 1
    /\ is_final(1)
    /\ Stored(last.user_id).current_lesson = 1
    /\ Stored(last.user_id).completed

\* C5: after /start the users sheet holds exactly one row of the user, with
\* current_lesson = 0, paused = false and completed = false, whatever the sheet
\* held before (no row, or a row at any index, paused or completed); the rows
\* of other users are as they were.
C5_StartResets ==
    [][\A u \in Users :
        (last'.op = "start" /\ last'.user_id = u)
        => /\ Cardinality(RowsOf(users_sheet', u)) = 1
           /\ StoredNext(u) = [user_id |-> u, current_lesson |-> 0,
                               paused |-> FALSE, completed |-> FALSE]
           /\ Len(users_sheet') = Len(users_sheet)
                                  + (IF HasUser(users_sheet, u) THEN 0 ELSE 1)
           /\ \A i \in 1..Len(users_sheet) :
                users_sheet[i].user_id # u => users_sheet'[i] = users_sheet[i]]_vars

\* /start has just reset a user who had replied at lesson 1 before.
C5_Witness ==
    /\ last.op = "start"
    /\ \E i \in 1..Len(responses_sheet) :
          /\ responses_sheet[i].user_id = last.user_id
          /\ responses_sheet[i].lesson_index = 1
    /\ Cardinality(RowsOf(users_sheet, last.user_id)) = 1
    /\ Stored(last.user_id).current_lesson = 0
    /\ Len(users_sheet) = 2

\* C6: a reply of any type to a lesson that is not final, from a user whose
\* record exists, stores current_lesson + 1 and arms one job for (user, new index).
C6_EveryReplyAdvances ==
    [][\A u \in Users :
        (/\ last'.op = "reply" /\ last'.user_id = u
         /\ HasUser(users_sheet, u)
         /\ Stored(u).current_lesson < Len(LESSONS)
         /\ ~is_final(Stored(u).current_lesson))
        => /\ StoredNext(u).current_lesson = Stored(u).current_lesson + 1
           /\ job_queue' = Append(job_queue,
                  [user_id |-> u, lesson_index |-> Stored(u).current_lesson + 1])]_vars

\* C7: every row of the users sheet has 0 <= current_lesson <= len(LESSONS).
C7_IndexInRange ==
    \A i \in 1..Len(users_sheet) :
        /\ users_sheet[i].current_lesson >= 0
        /\ users_sheet[i].current_lesson <= Len(LESSONS)

\* A reply was ignored because the user is past the last lesson of a catalog
\* that does not end in a final lesson.
C7_Witness ==
    /\ Len(LESSONS) > 0
    /\ last.op = "reply" /\ last.lesson_index = -1
    /\ HasUser(users_sheet, last.user_id)
    /\ Stored(last.user_id).current_lesson = Len(LESSONS)

\* C8 as stated: a stored completed flag is true only if a reply of that user to
\* a final lesson has been handled (every handled reply is in the responses sheet).
C8_AsStated ==
    \A u \in Users :
        (HasUser(users_sheet, u) /\ Stored(u).completed)
        => \E i \in 1..Len(responses_sheet) :
              /\ responses_sheet[i].user_id = u
              /\ responses_sheet[i].lesson_index < Len(LESSONS)
              /\ is_final(responses_sheet[i].lesson_index)

\* C8 as amended: a stored completed flag is true only if a final lesson has
\* been sent to that user without error since the user's last /start.
C8_CompletedOnlyAfterFinalSent ==
    \A u \in Users :
        (HasUser(users_sheet, u) /\ Stored(u).completed)
        => \E k \in delivered[u] : k < Len(LESSONS) /\ is_final(k)

\* Completed, and the user never replied.
C8_Witness ==
    /\ \E u \in Users : HasUser(users_sheet, u) /\ Stored(u).completed
    /\ responses_sheet = <<>>
    /\ last.op = "update_sent"

\* C9: a call of send_lesson(user, index) with index >= len(LESSONS) (an empty
\* catalog included) or with a paused stored record writes nothing to the users
\* sheet and starts no send, whoever calls it.
C9_DeliverNoOp ==
    [][\A u \in Users :
        (/\ CallsSendLesson(u)
         /\ \/ last'.lesson_index >= Len(LESSONS)
            \/ HasUser(users_sheet, u) /\ Stored(u).paused)
        => /\ users_sheet' = users_sheet
           /\ sending' = sending
           /\ handler'.pc = "idle" \/ handler' = handler
           /\ delivered' = delivered]_vars

\* A job fired for a lesson of the catalog while the user was paused.
C9_Witness ==
    /\ last.op = "job"
    /\ last.lesson_index < Len(LESSONS)
    /\ HasUser(users_sheet, last.user_id)
    /\ Stored(last.user_id).paused
    /\ sending = EmptyBag

\* C10: a send_lesson of a final lesson whose send raises does not mark
\* completion: neither the step up to the send nor the step after it changes
\* the stored completed flag.
C10_FailedSendNoCompletion ==
    [][\A u \in Users :
        /\ (CallsSendLesson(u) /\ HasUser(users_sheet, u))
           => StoredNext(u).completed = Stored(u).completed
        /\ (SendReturns(u) /\ ~last'.send_ok /\ is_final(last'.lesson_index))
           => users_sheet' = users_sheet]_vars

C10_Witness ==
    /\ last.op = "job_sent" /\ ~last.send_ok
    /\ is_final(last.lesson_index)
    /\ HasUser(users_sheet, last.user_id)
    /\ ~Stored(last.user_id).completed
    /\ Stored(last.user_id).current_lesson = last.lesson_index

\* The send_lesson whose send returns in this step: the suspended handler, or
\* the job taken out of sending.
ReturningTask ==
    IF last'.op = "update_sent"
    THEN handler
    ELSE CHOOSE task \in BagToSet(sending) :
            CopiesIn(task, sending') < CopiesIn(task, sending)

\* C11: when the send of a send_lesson raises, the call has not changed the
\* stored current_lesson: neither its save before the send (the index it found
\* stored was the one it saved) nor its return.
C11_FailedSendKeepsIndex ==
    [][\A u \in Users :
        (SendReturns(u) /\ ~last'.send_ok)
        => /\ ~ReturningTask.moved
           /\ users_sheet' = users_sheet]_vars

\* C12: a reply of any type accepted while the stored current_lesson is a
\* final lesson appends its row to the responses sheet, arms no job and leaves
\* the users sheet as it was (current_lesson and completed included).
C12_FinalReplyOnlyLogs ==
    [][\A u \in Users :
        (/\ last'.op = "reply" /\ last'.user_id = u
         /\ last'.lesson_index >= 0
         /\ is_final(last'.lesson_index))
        => /\ last'.lesson_index = Stored(u).current_lesson
           /\ responses_sheet' = Append(responses_sheet,
                  [user_id |-> u, lesson_index |-> Stored(u).current_lesson])
           /\ job_queue' = job_queue
           /\ sending' = sending
           /\ users_sheet' = users_sheet]_vars

\* A reply to a final lesson that has not been delivered: completed is still
\* false afterwards.
C12_Witness ==
    /\ last.op = "reply" /\ last.kind = "text"
    /\ last.lesson_index >= 0
    /\ is_final(last.lesson_index)
    /\ Stored(last.user_id).current_lesson = last.lesson_index
    /\ ~Stored(last.user_id).completed
    /\ job_queue = <<>>
    /\ responses_sheet # <<>>

\* C13: a failing sheet call never aborts a reply handler: a reply of a user
\* whose stored current_lesson is a non-final lesson of the catalog arms the job
\* for the next lesson whatever sheet call fails, and stores the next index
\* unless the save of the row fails, which leaves the users sheet as it was.
C13_SheetErrorsBestEffort ==
    [][\A u \in Users :
        (/\ last'.op = "reply" /\ last'.user_id = u
         /\ HasUser(users_sheet, u)
         /\ Stored(u).current_lesson \in 0..(Len(LESSONS) - 1)
         /\ ~is_final(Stored(u).current_lesson))
        => /\ job_queue' = Append(job_queue,
                  [user_id |-> u, lesson_index |-> Stored(u).current_lesson + 1])
           /\ users_sheet' =
                  IF last'.put_ok
                  THEN save_user_to_sheet(users_sheet,
                           [Stored(u) EXCEPT !.current_lesson = @ + 1], TRUE)
                  ELSE users_sheet]_vars

\* C15: the users sheet never holds two rows of one user; a user's row appears
\* only in a /start of that user; and any other step of a user without a row
\* (/pause, /resume, the course button, a reply, a job) leaves the users sheet
\* and the responses sheet as they were.
C15_OneRecordAfterStart ==
    [][\A u \in Users :
        /\ Cardinality(RowsOf(users_sheet', u)) <= 1
        /\ (~HasUser(users_sheet, u) /\ HasUser(users_sheet', u))
           => (last'.op = "start" /\ last'.user_id = u)
        /\ (~HasUser(users_sheet, u) /\ last'.user_id = u /\ last'.op # "start")
           => /\ users_sheet' = users_sheet
              /\ responses_sheet' = responses_sheet]_vars

\* A reply of a user who never sent /start, next to another user's row.
C15_Witness ==
    /\ last.op = "reply"
    /\ last.user_id \in Users
    /\ ~HasUser(users_sheet, last.user_id)
    /\ users_sheet = <<OtherRow>>
    /\ responses_sheet = <<>>

\* C16: once the stored paused flag of a user is true it stays true in every
\* step that is not a /resume or a /start of that user, the return of a
\* send_lesson that was suspended in its send while /pause ran included.
C16_PauseNotLost ==
    [][\A u \in Users :
        (/\ HasUser(users_sheet, u)
         /\ Stored(u).paused
         /\ ~(last'.op \in {"resume", "start"} /\ last'.user_id = u))
        => StoredNext(u).paused]_vars

\* C17: a row appended to the responses sheet for lesson k of a user is for a
\* lesson that was sent to that user without error since the user's last
\* /start.
C17_ReplyToDeliveredLesson ==
    [][\A u \in Users :
        (last'.op = "reply" /\ last'.user_id = u /\ responses_sheet' # responses_sheet)
        => responses_sheet'[Len(responses_sheet')].lesson_index \in delivered[u]]_vars

\* C18: when a job delivers lesson k (its send returns without error), the
\* current_lesson stored when the job fired was already k: send_lesson found k
\* stored and did not move the user to another lesson.
C18_JobKeepsStoredLesson ==
    [][\A u \in Users :
        (last'.op = "job_sent" /\ last'.user_id = u /\ last'.sent)
        => ~ReturningTask.moved]_vars

\* C19: since a user's last /start, a lesson k > 0 has been delivered to the
\* user only if lesson k - 1 has been delivered as well (lessons arrive in the
\* order of the catalog, none left out).
C19_DeliveredInOrder ==
    \A u \in Users :
        \A k \in delivered[u] : k > 0 => (k - 1) \in delivered[u]

\* The state after a reply of the unpaused user u was logged for lesson i, a
\* lesson that is not final and has a successor in the catalog.
RepliedTo(u, i) ==
    /\ last.op = "reply" /\ last.user_id = u
    /\ last.lesson_index = i
    /\ i + 1 < Len(LESSONS)
    /\ ~is_final(i)
    /\ ~Stored(u).paused

\* The state after lesson k was sent to u without error, with k stored.
DeliveredAt(u, k) ==
    /\ last.op \in {"update_sent", "job_sent"} /\ last.user_id = u
    /\ last.sent
    /\ last.lesson_index = k
    /\ Stored(u).current_lesson = k

\* C20: with no failure, jobs that fire and sends that return, a reply of an
\* unpaused user to a non-final lesson i leads to the delivery of lesson i + 1
\* with i + 1 stored, unless the user is paused or sends /start meanwhile.
C20_ReplyLeadsToNextLesson ==
    \A u \in Users : \A i \in 0..(MaxLessons - 1) :
        RepliedTo(u, i)
        ~> \/ DeliveredAt(u, i + 1)
           \/ (HasUser(users_sheet, u) /\ Stored(u).paused)
           \/ (last.op = "start" /\ last.user_id = u)
====
